---- MODULE Spec2Model ----
(***************************************************************************)
(* Model of the AATE configuration loader (src/config.py) and of the       *)
(* Firestore persistence wrapper (src/firebase_manager.py).                *)
(*                                                                         *)
(* Python values are modelled as follows:                                  *)
(*   - a dict is a function whose DOMAIN is the set of its keys;           *)
(*   - an Optional object is None (the record [none |-> TRUE]) or a        *)
(*     record of the object's attributes;                                  *)
(*   - return values True / False / None are the strings "True", "False",  *)
(*     "None" so that every call record has one shape;                     *)
(*   - the float risk fractions of TradingConfig are kept in thousandths   *)
(*     (0.1 is 100, 0.02 is 20); only their sign is ever inspected.        *)
(***************************************************************************)
EXTENDS Integers, Sequences, FiniteSets, TLC

VARIABLES
    env,            \* os.environ: a function from the names that are set to their values
    root_handlers,  \* whether the root logger already has a handler (logging.root.handlers)
    config,         \* what `config = ConfigManager()` did (src/config.py:95)
    apps,           \* firebase_admin._apps: the names of the registered applications
    init_calls,     \* outcomes of the firebase_admin.initialize_app calls made so far
    managers,       \* the FirebaseManager instances constructed so far, in order
    trades,         \* the documents of the Firestore collection 'trades', in order of add
    clock,          \* index of the next value datetime.utcnow() returns
    call            \* the last FirebaseManager operation: its arguments and its outcome

vars == <<env, root_handlers, config, apps, init_calls, managers, trades, clock, call>>

config_vars == <<env, root_handlers, config>>

store_vars == <<apps, init_calls, managers, trades, clock, call>>

----------------------------------------------------------------------------
(* Bounds of the model.                                                    *)

MaxManagers == 2

MaxClock == 2

----------------------------------------------------------------------------
(* Python helpers.                                                         *)

None == [none |-> TRUE]

EmptyDict == [k \in {} |-> ""]

\* d[key] = value on a dict: the key is added, or its value overwritten.
SetItem(d, key, value) ==
    [k \in DOMAIN d \cup {key} |-> IF k = key THEN value ELSE d[k]]

\* os.getenv(name, default)
getenv(e, name, default) ==
    IF name \in DOMAIN e THEN e[name] ELSE default

\* str.replace('\\n', '\n') on a string held as a sequence of characters:
\* every backslash followed by n becomes one newline character.
RECURSIVE replace_newlines(_)
replace_newlines(s) ==
    IF s = <<>> THEN <<>>
    ELSE IF Len(s) >= 2 /\ s[1] = "\\" /\ s[2] = "n"
         THEN <<"\n">> \o replace_newlines(SubSeq(s, 3, Len(s)))
         ELSE <<s[1]>> \o replace_newlines(Tail(s))

----------------------------------------------------------------------------
(* src/config.py                                                           *)

FirebaseEnvNames ==
    {"FIREBASE_PROJECT_ID", "FIREBASE_PRIVATE_KEY_ID", "FIREBASE_PRIVATE_KEY",
     "FIREBASE_CLIENT_EMAIL", "FIREBASE_CLIENT_ID"}

\* FirebaseConfig.from_env: the dataclass constructor cannot fail on strings,
\* so the except branch (log an error, return None) is never taken.
from_env(e) ==
    [project_id     |-> getenv(e, "FIREBASE_PROJECT_ID", ""),
     private_key_id |-> getenv(e, "FIREBASE_PRIVATE_KEY_ID", ""),
     private_key    |-> replace_newlines(getenv(e, "FIREBASE_PRIVATE_KEY", <<>>)),
     client_email   |-> getenv(e, "FIREBASE_CLIENT_EMAIL", ""),
     client_id      |-> getenv(e, "FIREBASE_CLIENT_ID", "")]

\* bool(x) of an Optional dataclass instance: only None is falsy.
Truthy(x) == x # None

\* TradingConfig(): the dataclass defaults (fractions in thousandths).
TradingConfig ==
    [max_position_size    |-> 100,
     max_daily_loss       |-> 20,
     stop_loss_pct        |-> 20,
     lookback_period      |-> 100,
     min_volume_threshold |-> 1000000000,
     exchange_fee         |-> 1,
     api_timeout          |-> 30]

\* TradingConfig.is_valid
is_valid(tc) ==
    /\ tc.max_position_size > 0
    /\ tc.max_daily_loss > 0
    /\ tc.stop_loss_pct > 0
    /\ tc.lookback_period > 0

\* The attributes of the logging module that LOG_LEVEL can name: the level
\* constants are integers, the other attributes are not levels.
LoggingLevelNames == {"CRITICAL", "ERROR", "WARNING", "INFO", "DEBUG", "NOTSET"}

LoggingOtherNames == {"info", "debug", "warning", "error", "Logger"}

\* getattr(logging, name): "level", "other", or "AttributeError".
logging_getattr(name) ==
    IF name \in LoggingLevelNames THEN "level"
    ELSE IF name \in LoggingOtherNames THEN "other"
    ELSE "AttributeError"

\* logging.basicConfig(level=..., format=...): does nothing when the root
\* logger has a handler; otherwise adds one and then sets the level, which
\* raises TypeError for a value that is not a level.
basicConfig(handlers, level) ==
    IF handlers THEN [raised |-> FALSE, handlers |-> TRUE]
    ELSE [raised |-> level # "level", handlers |-> TRUE]

WarnOffline == "WARNING Firebase configuration not found - running in offline mode"

InfoValidated == "INFO Configuration validated successfully"

\* ConfigManager._validate_config: the log lines and whether ValueError is raised.
validate_config(firebase_config, trading_config) ==
    LET warn == IF ~Truthy(firebase_config) THEN <<WarnOffline>> ELSE <<>>
    IN  IF ~is_valid(trading_config)
        THEN [raised |-> TRUE, exc |-> "ValueError", log |-> warn]
        ELSE [raised |-> FALSE, exc |-> "None", log |-> warn \o <<InfoValidated>>]

\* ConfigManager.__init__ as a function of the environment and of the state
\* of the root logger: the attributes assigned (self), whether and what it
\* raised, what it logged, and the root logger's state afterwards.
ConfigManager_init(e, handlers) ==
    LET firebase_config == from_env(e)
        trading_config  == TradingConfig
        log_level       == getenv(e, "LOG_LEVEL", "INFO")
        level           == logging_getattr(log_level)
        self == [state |-> "constructed", exc |-> "None",
                 firebase_config |-> firebase_config,
                 trading_config |-> trading_config,
                 log_level |-> log_level, log |-> <<>>]
    IN  IF level = "AttributeError"
        THEN [self |-> [self EXCEPT !.state = "raised", !.exc = "AttributeError"],
              handlers |-> handlers]
        ELSE LET bc == basicConfig(handlers, level)
             IN  IF bc.raised
                 THEN [self |-> [self EXCEPT !.state = "raised", !.exc = "TypeError"],
                       handlers |-> bc.handlers]
                 ELSE LET v == validate_config(firebase_config, trading_config)
                      IN  [self |-> [self EXCEPT
                                       !.state = IF v.raised THEN "raised"
                                                 ELSE "constructed",
                                       !.exc = v.exc, !.log = v.log],
                           handlers |-> bc.handlers]

\* Before `config = ConfigManager()` has run.
NotConstructed ==
    [state |-> "none", exc |-> "None", firebase_config |-> None,
     trading_config |-> TradingConfig, log_level |-> "", log |-> <<>>]

\* Values the environment variables are drawn from.
LogLevelValues == {"INFO", "DEBUG", "info", "VERBOSE", ""}

TextValues == {"", "aate"}

PrivateKeyValues == {<<>>, <<"k", "\\", "n", "k">>, <<"k", "n", "\\">>}

\* The environments: every subset of the six names set, each to one of its values.
LogEnvs == {EmptyDict} \cup {[n \in {"LOG_LEVEL"} |-> v] : v \in LogLevelValues}

KeyEnvs ==
    {EmptyDict} \cup {[n \in {"FIREBASE_PRIVATE_KEY"} |-> v] : v \in PrivateKeyValues}

TextEnvs ==
    UNION {[S -> TextValues] :
             S \in SUBSET (FirebaseEnvNames \ {"FIREBASE_PRIVATE_KEY"})}

Merge(l, k, t) ==
    [n \in DOMAIN l \cup DOMAIN k \cup DOMAIN t |->
        IF n \in DOMAIN l THEN l[n] ELSE IF n \in DOMAIN k THEN k[n] ELSE t[n]]

Environments == {Merge(l, k, t) : l \in LogEnvs, k \in KeyEnvs, t \in TextEnvs}

----------------------------------------------------------------------------
(* src/firebase_manager.py                                                 *)

\* What a call into the Firebase SDK can do: return, raise
\* firebase_admin.exceptions.FirebaseError, or raise another Exception.
SdkOutcomes == {"ok", "FirebaseError", "Exception"}

DefaultApp == "[DEFAULT]"

\* firebase_admin.initialize_app(cred): registers the default application, and
\* raises when one is registered already or when the SDK fails.
initialize_app(registered, outcome) ==
    IF DefaultApp \in registered \/ outcome # "ok"
    THEN [raised |-> TRUE, apps |-> registered]
    ELSE [raised |-> FALSE, apps |-> registered \cup {DefaultApp}]

\* The credentials arguments FirebaseManager is constructed with: None, a
\* FirebaseConfig of empty fields, a FirebaseConfig of filled fields.
EmptyFirebaseConfig == from_env(EmptyDict)

FilledFirebaseConfig ==
    [project_id |-> "aate", private_key_id |-> "aate",
     private_key |-> <<"k", "\n", "k">>, client_email |-> "aate",
     client_id |-> "aate"]

FirebaseConfigs == {None, EmptyFirebaseConfig, FilledFirebaseConfig}

\* The outcomes of the three SDK steps of a construction: the first call that
\* raises ends the try block, so at most one of them raises.
SdkSteps ==
    {o \in [Certificate : SdkOutcomes, initialize_app : SdkOutcomes,
            client : SdkOutcomes] :
        Cardinality({step \in DOMAIN o : o[step] # "ok"}) <= 1}

InfoInitialized == "INFO Firebase initialized successfully"

ErrorInitFailed == "ERROR Firebase initialization failed"

\* Mutant of no_apps: the guard against a second registration is missing.
no_apps_unguarded(registered) == TRUE

\* `if not firebase_admin._apps`
no_apps(registered) == registered = {}

\* Mutant of init_failed: only FirebaseError is caught, so any other
\* exception leaves the constructor.
init_failed_narrow(self, registered, attempts, exc) ==
    [self |-> [self EXCEPT !._initialized = FALSE], apps |-> registered,
     init_calls |-> attempts, raised |-> exc # "FirebaseError",
     log |-> IF exc = "FirebaseError" THEN <<ErrorInitFailed>> ELSE <<>>]

\* The except branch of FirebaseManager.__init__, entered with exception exc
\* (every Exception is caught): log, self._initialized = False.
init_failed(self, registered, attempts, exc) ==
    [self |-> [self EXCEPT !._initialized = FALSE], apps |-> registered,
     init_calls |-> attempts, raised |-> FALSE, log |-> <<ErrorInitFailed>>]

\* FirebaseManager.__init__(firebase_config) with firebase_admin._apps =
\* registered and the SDK behaving as sdk: the instance, firebase_admin._apps
\* afterwards, the outcomes of the initialize_app calls made, whether the
\* constructor raised, and what it logged.
FirebaseManager_init(firebase_config, registered, sdk) ==
    LET self0 == [_db |-> "None", _initialized |-> FALSE]
        \* self._db = firestore.client(); self._initialized = True
        connect(regs, attempts) ==
            IF sdk.client # "ok"
            THEN init_failed(self0, regs, attempts, sdk.client)
            ELSE [self |-> [_db |-> "Client", _initialized |-> TRUE],
                  apps |-> regs, init_calls |-> attempts,
                  raised |-> FALSE, log |-> <<InfoInitialized>>]
    IN  IF no_apps(registered)
        THEN IF firebase_config = None      \* None.project_id: AttributeError
             THEN init_failed(self0, registered, <<>>, "Exception")
             ELSE IF sdk.Certificate # "ok"
             THEN init_failed(self0, registered, <<>>, sdk.Certificate)
             ELSE LET app == initialize_app(registered, sdk.initialize_app)
                  IN  IF app.raised
                      THEN init_failed(self0, app.apps, <<"raised">>,
                                       IF sdk.initialize_app = "ok" THEN "Exception"
                                       ELSE sdk.initialize_app)
                      ELSE connect(app.apps, <<"ok">>)
        ELSE connect(registered, <<>>)

\* FirebaseManager.is_connected
is_connected(self) == self._initialized /\ self._db # "None"

required_fields == {"symbol", "action", "quantity", "price", "timestamp"}

\* datetime.utcnow(): the clock's value, a different one at every write.
utcnow(t) == "utc" \o ToString(t)

WarnNotConnected == "WARNING Firebase not connected - trade not saved"

ErrorMissingFields == "ERROR Missing required trade fields"

InfoTradeSaved == "INFO Trade saved"

ErrorFirebase == "ERROR Firebase error saving trade"

ErrorUnexpected == "ERROR Unexpected error saving trade"

\* The outcomes of the two backend calls of save_trade: the first call that
\* raises ends the try block, so at most one of them raises.
Backends ==
    {b \in [collection : SdkOutcomes, add : SdkOutcomes] :
        b.collection = "ok" \/ b.add = "ok"}

OkBackend == [collection |-> "ok", add |-> "ok"]

\* Mutant of not_connected: the early return reports success.
not_connected_returns_true(result) ==
    [result EXCEPT !.ret = "True", !.log = <<WarnNotConnected>>]

\* The early return of save_trade on a store that is not connected.
not_connected(result) == [result EXCEPT !.log = <<WarnNotConnected>>]

\* Mutant of has_required_fields: any() where the code has all().
has_any_required_field(trade_data) ==
    \E field \in required_fields : field \in DOMAIN trade_data

\* all(field in trade_data for field in required_fields)
has_required_fields(trade_data) ==
    \A field \in required_fields : field \in DOMAIN trade_data

\* Mutant of add_metadata: the status assignment is missing.
add_metadata_no_status(trade_data, t) ==
    SetItem(trade_data, "created_at", utcnow(t))

\* The two assignments under "Add metadata", made on the object passed in.
add_metadata(trade_data, t) ==
    SetItem(SetItem(trade_data, "created_at", utcnow(t)), "status", "completed")

\* Mutant of except_result: the `except Exception` clause is missing, so only
\* FirebaseError is caught.
except_result_narrow(result, exc) ==
    IF exc = "FirebaseError"
    THEN [result EXCEPT !.ret = "False", !.log = <<ErrorFirebase>>]
    ELSE [result EXCEPT !.ret = "None", !.raised = TRUE]

\* Mutant of except_result: a backend error marks the store disconnected.
except_result_disconnects(result, exc) ==
    [result EXCEPT !.ret = "False",
                   !.log = <<IF exc = "FirebaseError" THEN ErrorFirebase
                             ELSE ErrorUnexpected>>,
                   !.self = [result.self EXCEPT !._initialized = FALSE]]

\* The two except branches of save_trade, entered with exception exc: each
\* logs its own message and returns False.
except_result(result, exc) ==
    [result EXCEPT !.ret = "False",
                   !.log = <<IF exc = "FirebaseError" THEN ErrorFirebase
                             ELSE ErrorUnexpected>>]

\* FirebaseManager.save_trade(trade_data) on instance self, with the backend
\* behaving as backend and the clock at t.  The result holds the return value,
\* whether an exception left the method, the log lines, the caller's
\* trade_data object after the call, the documents handed to add() on
\* 'trades' (add_calls), those the backend stored (added), whether utcnow()
\* was read, and the instance afterwards.
save_trade(self, trade_data, backend, t) ==
    LET result == [ret |-> "None", raised |-> FALSE, log |-> <<>>,
                   trade_data |-> trade_data, add_calls |-> <<>>, added |-> <<>>,
                   stamped |-> FALSE, self |-> self]
    IN  IF ~is_connected(self)
        THEN not_connected([result EXCEPT !.ret = "False"])
        ELSE IF ~has_required_fields(trade_data)
        THEN [result EXCEPT !.ret = "False", !.log = <<ErrorMissingFields>>]
        ELSE LET \* trade_data is the caller's object: the assignments are
                 \* made on it, and it is what add() receives.
                 data == add_metadata(trade_data, t)
                 stamped == [result EXCEPT !.trade_data = data, !.stamped = TRUE]
                 \* self._db.collection: AttributeError when _db is None
                 coll == IF self._db = "None" THEN "Exception" ELSE backend.collection
             IN  IF coll # "ok"
                 THEN except_result(stamped, coll)
                 ELSE IF backend.add # "ok"
                 THEN except_result([stamped EXCEPT !.add_calls = <<data>>],
                                    backend.add)
                 ELSE [stamped EXCEPT !.ret = "True", !.log = <<InfoTradeSaved>>,
                                      !.add_calls = <<data>>, !.added = <<data>>]

\* The trade records callers pass: every subset of the required fields, and a
\* complete record with or without a caller-supplied status and created_at.
TradeKeys == required_fields \cup {"status", "created_at"}

TradeValue(k) ==
    CASE k = "symbol" -> "BTC/USDT"
      [] k = "action" -> "buy"
      [] k = "quantity" -> "2"
      [] k = "price" -> "100"
      [] k = "timestamp" -> "utc0"
      [] k = "status" -> "pending"
      [] k = "created_at" -> "utc0"

TradeRecords ==
    {[k \in S |-> TradeValue(k)] :
        S \in {T \in SUBSET TradeKeys :
                 T \subseteq required_fields \/ required_fields \subseteq T}}

OkSdk == [Certificate |-> "ok", initialize_app |-> "ok", client |-> "ok"]

NoCall ==
    [op |-> "none", before |-> [_db |-> "None", _initialized |-> FALSE],
     arg |-> EmptyDict, trade_data |-> EmptyDict, ret |-> "None", raised |-> FALSE,
     log |-> <<>>, add_calls |-> <<>>, backend |-> OkBackend,
     trades_before |-> 0, firebase_config |-> None, sdk |-> OkSdk,
     apps_before |-> {}, init_calls |-> <<>>]

----------------------------------------------------------------------------
(* The state machine.                                                      *)

Init ==
    /\ env = EmptyDict
    /\ root_handlers = FALSE
    /\ config = NotConstructed
    /\ apps = {}
    /\ init_calls = <<>>
    /\ managers = <<>>
    /\ trades = <<>>
    /\ clock = 1
    /\ call = NoCall

\* FirebaseManager(firebase_config)
Construct ==
    \E firebase_config \in FirebaseConfigs, sdk \in SdkSteps :
        /\ Len(managers) < MaxManagers
        /\ \E r \in {FirebaseManager_init(firebase_config, apps, sdk)} :
               /\ apps' = r.apps
               /\ init_calls' = init_calls \o r.init_calls
               /\ managers' = IF r.raised THEN managers ELSE Append(managers, r.self)
               /\ call' = [NoCall EXCEPT !.op = "__init__",
                                         !.before = r.self,
                                         !.raised = r.raised, !.log = r.log,
                                         !.firebase_config = firebase_config,
                                         !.sdk = sdk, !.apps_before = apps,
                                         !.init_calls = r.init_calls]
        /\ UNCHANGED <<trades, clock, config_vars>>

\* manager.is_connected()
IsConnected ==
    \E i \in DOMAIN managers :
        /\ call' = [NoCall EXCEPT !.op = "is_connected",
                                  !.before = managers[i],
                                  !.ret = IF is_connected(managers[i]) THEN "True"
                                          ELSE "False"]
        /\ UNCHANGED <<apps, init_calls, managers, trades, clock, config_vars>>

\* manager.save_trade(trade_data)
SaveTrade ==
    \E i \in DOMAIN managers, trade_data \in TradeRecords, backend \in Backends :
        \E r \in {save_trade(managers[i], trade_data, backend, clock)} :
            /\ r.stamped => clock <= MaxClock
            /\ ~r.stamped => backend = OkBackend    \* the backend is not called
            /\ managers' = [managers EXCEPT ![i] = r.self]
            /\ trades' = trades \o r.added
            /\ clock' = IF r.stamped THEN clock + 1 ELSE clock
            /\ call' = [NoCall EXCEPT !.op = "save_trade",
                                      !.before = managers[i],
                                      !.arg = trade_data,
                                      !.trade_data = r.trade_data,
                                      !.ret = r.ret, !.raised = r.raised,
                                      !.log = r.log, !.add_calls = r.add_calls,
                                      !.backend = backend,
                                      !.trades_before = Len(trades)]
            /\ UNCHANGED <<apps, init_calls, config_vars>>

Next == Construct \/ IsConnected \/ SaveTrade

Spec == Init /\ [][Next]_vars

\* The configuration loader on its own: the process starts in any
\* environment, with or without a handler on the root logger, and the module
\* runs `config = ConfigManager()`.
InitConfig ==
    /\ env \in Environments
    /\ root_handlers \in BOOLEAN
    /\ config = NotConstructed
    /\ apps = {}
    /\ init_calls = <<>>
    /\ managers = <<>>
    /\ trades = <<>>
    /\ clock = 1
    /\ call = NoCall

ConstructConfig ==
    /\ config.state = "none"
    /\ LET r == ConfigManager_init(env, root_handlers)
       IN  /\ config' = r.self
           /\ root_handlers' = r.handlers
    /\ UNCHANGED <<env, store_vars>>

NextConfig == ConstructConfig

SpecConfig == InitConfig /\ [][NextConfig]_vars

----------------------------------------------------------------------------
(* Properties.                                                             *)

\* The last operation was save_trade on a store that was connected.
SavedOnConnected ==
    /\ call.op = "save_trade"
    /\ call.before._initialized
    /\ call.before._db # "None"

\* The last operation was save_trade on a store that was not connected.
SavedOnDisconnected ==
    /\ call.op = "save_trade"
    /\ ~(call.before._initialized /\ call.before._db # "None")

Metadata == {"created_at", "status"}

\* C1 (as claimed): save_trade leaves the caller's trade_data mapping with
\* exactly the keys and values it had before the call.
C1_CallerMappingUnchanged ==
    call.op = "save_trade" => call.trade_data = call.arg

\* All five Firebase variables are empty or unset.
NoFirebaseEnv(e) ==
    /\ \A n \in FirebaseEnvNames \ {"FIREBASE_PRIVATE_KEY"} : getenv(e, n, "") = ""
    /\ getenv(e, "FIREBASE_PRIVATE_KEY", <<>>) = <<>>

\* C2 (as claimed): constructing ConfigManager raises exactly when one of
\* the four trading parameters is <= 0, whatever the environment holds.
C2_OnlyTradingParametersAreFatal ==
    config.state # "none" =>
        (config.state = "raised" <=> ~is_valid(config.trading_config))

\* C3 (as claimed): with all five Firebase variables empty or unset,
\* from_env yields None, the offline-mode warning is logged and construction
\* does not abort.
C3_AbsentCredentialsDegrade ==
    (config.state # "none" /\ NoFirebaseEnv(env)) =>
        /\ config.firebase_config = None
        /\ \E i \in DOMAIN config.log : config.log[i] = WarnOffline
        /\ config.state = "constructed"

\* C4 (as claimed): on a connected store, a complete record and a backend
\* that does not raise, save_trade returns True and adds one document to
\* 'trades' that is the input record plus exactly two added fields,
\* created_at and status = 'completed', every input key keeping its value.
C4_Original ==
    (SavedOnConnected /\ has_required_fields(call.arg) /\ call.backend = OkBackend) =>
        /\ call.ret = "True"
        /\ Len(call.add_calls) = 1
        /\ Len(trades) = call.trades_before + 1
        /\ trades[Len(trades)] = call.add_calls[1]
        /\ LET doc == call.add_calls[1]
           IN  /\ DOMAIN doc = DOMAIN call.arg \cup Metadata
               /\ Cardinality(DOMAIN doc) = Cardinality(DOMAIN call.arg) + 2
               /\ doc["created_at"] = utcnow(clock - 1)
               /\ doc["status"] = "completed"
               /\ \A k \in DOMAIN call.arg : doc[k] = call.arg[k]

\* C4 (amended): on a connected store, a complete record and a backend that
\* does not raise, save_trade returns True and adds one document to 'trades'
\* whose keys are the input's keys together with created_at and status,
\* whose created_at is the write-time timestamp and whose status is
\* 'completed', every input key other than created_at and status keeping
\* its input value.
C4_PersistedDocument ==
    (SavedOnConnected /\ has_required_fields(call.arg) /\ call.backend = OkBackend) =>
        /\ call.ret = "True"
        /\ Len(call.add_calls) = 1
        /\ Len(trades) = call.trades_before + 1
        /\ trades[Len(trades)] = call.add_calls[1]
        /\ LET doc == call.add_calls[1]
           IN  /\ DOMAIN doc = DOMAIN call.arg \cup Metadata
               /\ doc["created_at"] = utcnow(clock - 1)
               /\ doc["status"] = "completed"
               /\ \A k \in DOMAIN call.arg \ Metadata : doc[k] = call.arg[k]

\* A complete record carrying its own status was saved.
C4_Witness ==
    /\ SavedOnConnected
    /\ call.ret = "True"
    /\ "status" \in DOMAIN call.arg
    /\ call.arg["status"] = "pending"

\* C5: on a store that is not connected, save_trade returns False, hands
\* nothing to the backend and raises nothing, whatever the record.
C5_NotConnectedNoWrite ==
    SavedOnDisconnected =>
        /\ call.ret = "False"
        /\ ~call.raised
        /\ call.add_calls = <<>>
        /\ Len(trades) = call.trades_before

\* save_trade was called with a complete record on a disconnected store.
C5_Witness ==
    /\ SavedOnDisconnected
    /\ DOMAIN call.arg = required_fields

\* C6: on a connected store, save_trade returns False and hands nothing to
\* the backend whenever a required key is missing from the record.
C6_MissingFieldNoWrite ==
    (SavedOnConnected /\ \E f \in required_fields : f \notin DOMAIN call.arg) =>
        /\ call.ret = "False"
        /\ call.add_calls = <<>>
        /\ Len(trades) = call.trades_before

\* save_trade was called on a connected store with only the price missing.
C6_Witness ==
    /\ SavedOnConnected
    /\ DOMAIN call.arg = required_fields \ {"price"}

\* C7: no exception leaves save_trade; when the backend raises, save_trade
\* returns False and logs a message that is neither the missing-field nor
\* the not-connected message.
C7_BackendErrorsAreCaught ==
    call.op = "save_trade" =>
        /\ ~call.raised
        /\ call.ret \in {"True", "False"}
        /\ call.backend # OkBackend =>
              /\ call.ret = "False"
              /\ call.log # <<>>
              /\ \A i \in DOMAIN call.log :
                    call.log[i] \notin {WarnNotConnected, ErrorMissingFields}

\* add() raised an exception that is not a FirebaseError.
C7_Witness ==
    /\ SavedOnConnected
    /\ call.backend.add = "Exception"

\* C8: initialize_app succeeds at most once over all constructions, a
\* construction that finds an application registered does not call it, and
\* no construction raises.
C8_RegisteredAtMostOnce ==
    /\ Cardinality({i \in DOMAIN init_calls : init_calls[i] = "ok"}) <= 1
    /\ call.op = "__init__" =>
          /\ ~call.raised
          /\ call.apps_before # {} => call.init_calls = <<>>

\* A second construction found the application registered.
C8_Witness ==
    /\ call.op = "__init__"
    /\ call.apps_before # {}
    /\ Len(managers) = 2
    /\ \E i \in DOMAIN init_calls : init_calls[i] = "ok"

\* A step of the construction recorded in call raised: reading the
\* credentials' fields, or one of the SDK calls the constructor reached.
ConstructionStepRaised ==
    IF call.apps_before = {}
    THEN \/ call.firebase_config = None
         \/ call.sdk.Certificate # "ok"
         \/ call.sdk.initialize_app # "ok"
         \/ call.sdk.client # "ok"
    ELSE call.sdk.client # "ok"

\* C9: construction never raises; the store is connected exactly when no
\* step of its construction raised, and then it holds a client handle.
C9_ConstructionNeverRaises ==
    call.op = "__init__" =>
        /\ ~call.raised
        /\ Len(managers) > 0
        /\ LET self == managers[Len(managers)]
           IN  /\ self = call.before
               /\ is_connected(self) <=> ~ConstructionStepRaised
               /\ is_connected(self) => self._db = "Client"

\* initialize_app registered the application and firestore.client() raised.
C9_Witness ==
    /\ call.op = "__init__"
    /\ call.init_calls = <<"ok">>
    /\ call.sdk.client = "Exception"
    /\ ~is_connected(managers[Len(managers)])

\* C10: every instance has _initialized true exactly when _db is not None,
\* and no operation changes the _db or _initialized of an instance that has
\* been constructed.
C10_ConnectionStateIsReadOnly ==
    /\ [](\A i \in DOMAIN managers :
            managers[i]._initialized <=> managers[i]._db # "None")
    /\ [][\A i \in DOMAIN managers :
            i \in DOMAIN managers' /\ managers'[i] = managers[i]]_vars

\* The backend raised during save_trade on a connected store.
C10_Witness ==
    /\ SavedOnConnected
    /\ call.backend # OkBackend
    /\ \E i \in DOMAIN managers : is_connected(managers[i])

====
